---- MODULE Spec2Model ----
(***************************************************************************)
(* Model of baseline/models.py: the Kind enumeration and the Extractor     *)
(* contract (is_compatible, supports, __init__, remap_location).           *)
(*                                                                         *)
(* Strings are sequences of one-character strings.  A path is a record     *)
(* [abs, parts]: abs says whether it has a root anchor, parts are the      *)
(* names of its components.  A dict is the sequence of its items in        *)
(* insertion order, keys pairwise distinct.  Objects that can be aliased   *)
(* (the dicts bound to self.remap) live in a heap and are held by          *)
(* reference.                                                              *)
(***************************************************************************)
EXTENDS Integers, Sequences, FiniteSets, TLC

VARIABLES cls, host, heap, instances, call

vars == <<cls, host, heap, instances, call>>

(* ------------------------------ bounds --------------------------------- *)

MaxFilters == 2
MaxInstances == 2
MaxPairs == 2

(* ------------------------------ helpers -------------------------------- *)

Range(s) == {s[i] : i \in 1..Len(s)}

RECURSIVE Pick(_, _, _)
Pick(list, S, i) ==
    IF i > Len(list) THEN <<>>
    ELSE (IF i \in S THEN <<list[i]>> ELSE <<>>) \o Pick(list, S, i + 1)

\* tuples of at most MaxFilters patterns taken, in order, from a list
FilterTuples(list) ==
    {Pick(list, S, 1) : S \in {T \in SUBSET (1..Len(list)) : Cardinality(T) <= MaxFilters}}

(* ------------------------------- Kind ---------------------------------- *)

Kind == {"FILE", "DIRECTORY", "SYMLINK", "BLOCK_DEVICE", "CHARACTER_DEVICE",
         "FIFO", "SOCKET", "MOUNT", "OTHER"}

\* the default value of Extractor.KINDS
KINDS_default == <<"FILE", "DIRECTORY", "SYMLINK", "BLOCK_DEVICE", "CHARACTER_DEVICE",
                   "FIFO", "SOCKET", "MOUNT", "OTHER">>

(* --------------------------- python values ----------------------------- *)

\* None and "argument left out" for a string parameter; neither is a string
\* of one-character elements
None == <<"None">>
Omitted == <<"omitted">>
OmittedKind == "omitted"

\* `if x:` on an Optional[str]
Truthy(s) == s # None /\ s # <<>>

(* ------------------------------- re ------------------------------------ *)

\* A pattern is a literal, optionally followed by `$`: [lit, end].
\* re.match anchors at the start of the string and not at its end.
re_match(pattern, string) ==
    /\ Len(string) >= Len(pattern.lit)
    /\ SubSeq(string, 1, Len(pattern.lit)) = pattern.lit
    /\ (pattern.end => Len(string) = Len(pattern.lit))

(* ----------------------------- pathlib --------------------------------- *)

\* PurePath.name: the final component, '' when there is none
name(path) == IF path.parts = <<>> THEN <<>> ELSE path.parts[Len(path.parts)]

\* PurePath.suffix: from the last dot of the name, '' when the name has no
\* dot, starts with its only dot, or ends with a dot
suffix(path) ==
    LET n == name(path)
        dots == {i \in 1..Len(n) : n[i] = "."}
    IN  IF dots = {} THEN <<>>
        ELSE LET i == CHOOSE d \in dots : \A e \in dots : e <= d
             IN  IF 1 < i /\ i < Len(n) THEN SubSeq(n, i, Len(n)) ELSE <<>>

\* relative_to comparing the component names only, not the anchors
relative_to_unanchored(location, source) ==
    IF /\ Len(source.parts) <= Len(location.parts)
       /\ SubSeq(location.parts, 1, Len(source.parts)) = source.parts
    THEN [ok |-> TRUE,
          path |-> [abs |-> FALSE,
                    parts |-> SubSeq(location.parts, Len(source.parts) + 1,
                                     Len(location.parts))]]
    ELSE [ok |-> FALSE, path |-> location]

\* PurePath.relative_to: ok = FALSE stands for ValueError
relative_to(location, source) ==
    IF /\ location.abs = source.abs
       /\ Len(source.parts) <= Len(location.parts)
       /\ SubSeq(location.parts, 1, Len(source.parts)) = source.parts
    THEN [ok |-> TRUE,
          path |-> [abs |-> FALSE,
                    parts |-> SubSeq(location.parts, Len(source.parts) + 1,
                                     Len(location.parts))]]
    ELSE [ok |-> FALSE, path |-> location]

\* PurePath.__truediv__
truediv(a, b) ==
    IF b.abs THEN b ELSE [abs |-> a.abs, parts |-> a.parts \o b.parts]

(* ------------------------ Extractor: predicates ------------------------ *)

\* line 74, the body of is_compatible
is_compatible_body(c, system) ==
    \E pattern \in Range(c.SYSTEM_FILTERS) : re_match(pattern, system)

\* `@property` over `@classmethod`: read on the class, the attribute is the
\* property object itself; read on an instance, property.__get__ calls its
\* fget, a classmethod object, which is not callable.  via = 0 is the class,
\* via > 0 the instance of that index.
is_compatible(c, system, via) ==
    IF via = 0
    THEN [outcome |-> "return", type |-> "property", value |-> "property object"]
    ELSE [outcome |-> "raise", type |-> "exception", value |-> "TypeError"]

\* extension_match with the patterns matched against entry.name
extension_match_name(c, entry) ==
    \E pattern \in Range(c.EXTENSION_FILTERS) : re_match(pattern, name(entry))

\* extension_match with all() in place of any()
extension_match_all(c, entry) ==
    \A pattern \in Range(c.EXTENSION_FILTERS) : re_match(pattern, suffix(entry))

\* line 87
extension_match(c, entry) ==
    \E pattern \in Range(c.EXTENSION_FILTERS) : re_match(pattern, suffix(entry))

\* line 92
signature_match(c, magic_signature) ==
    \E pattern \in Range(c.MAGIC_SIGNATURE_FILTERS) : re_match(pattern, magic_signature)

\* supports_body without the test of lines 83-84
supports_body_no_kind_gate(c, entry, kind, magic_signature) ==
    LET filters == <<extension_match(c, entry)>> \o
                   (IF Truthy(magic_signature)
                    THEN <<signature_match(c, magic_signature)>>
                    ELSE <<>>)
    IN  \E i \in 1..Len(filters) : filters[i]

\* supports, after the defaults of its parameters are filled in
supports_body(c, entry, kind, magic_signature) ==
    IF kind \notin Range(c.KINDS) THEN FALSE
    ELSE LET filters == <<extension_match(c, entry)>> \o
                        (IF Truthy(magic_signature)
                         THEN <<signature_match(c, magic_signature)>>
                         ELSE <<>>)
         IN  \E i \in 1..Len(filters) : filters[i]

supports(c, entry, kindArg, sigArg) ==
    LET kind == IF kindArg = OmittedKind THEN "FILE" ELSE kindArg
        magic_signature == IF sigArg = Omitted THEN None ELSE sigArg
    IN  [outcome |-> "return", type |-> "bool",
         value |-> supports_body(c, entry, kind, magic_signature)]

(* ----------------------- Extractor: remap_location --------------------- *)

\* one turn of the loop of remap_location: the try block and its except
remap_step(location, item) ==
    LET source == item[1]
        destination == item[2]
        rel == relative_to(location, source)
    IN  IF rel.ok THEN truediv(destination, rel.path) ELSE location

RECURSIVE remap_loop(_, _)
remap_loop(items, location) ==
    IF items = <<>> THEN location
    ELSE remap_loop(Tail(items), remap_step(location, Head(items)))

remap_location(remap, location) ==
    [outcome |-> "return", type |-> "path", value |-> remap_loop(remap, location)]

(* ------------------------------ dict ----------------------------------- *)

\* d[key] = value on a dict kept as its items in insertion order
dict_setitem(d, key, value) ==
    IF \E i \in 1..Len(d) : d[i][1] = key
    THEN [i \in 1..Len(d) |-> IF d[i][1] = key THEN <<key, value>> ELSE d[i]]
    ELSE Append(d, <<key, value>>)

(* ------------------------------ inputs --------------------------------- *)

Str_mnt == <<"m", "n", "t">>
Str_a == <<"a">>
Str_etc == <<"e", "t", "c">>
Str_root == <<"r", "o", "o", "t">>
Str_root2 == <<"r", "o", "o", "t", "2">>

Path(abs, parts) == [abs |-> abs, parts |-> parts]

\* source roots and destination roots a caller may put in a remap table
Sources == {Path(TRUE, <<Str_mnt>>), Path(TRUE, <<Str_mnt, Str_a>>)}
Dests == {Path(TRUE, <<Str_root>>), Path(TRUE, <<Str_root2>>)}

\* locations handed to remap_location
Locations ==
    {Path(TRUE, <<Str_mnt, Str_a, Str_etc>>), Path(TRUE, <<Str_mnt, Str_etc>>),
     Path(FALSE, <<Str_mnt, Str_etc>>)}

\* tables of at most n pairs, keys pairwise distinct
RECURSIVE Tables(_)
Tables(n) ==
    IF n = 0 THEN {<<>>}
    ELSE Tables(n - 1) \cup
         {dict_setitem(t, s, d) : t \in Tables(n - 1), s \in Sources, d \in Dests}

RemapTables == {t \in Tables(MaxPairs) : \A i, j \in 1..Len(t) : t[i][1] = t[j][1] => i = j}

\* the remap argument of the constructor: left out, or a table
RemapArgs ==
    {[given |-> FALSE, table |-> <<>>]} \cup {[given |-> TRUE, table |-> t] : t \in RemapTables}

\* the entry and the kind argument of the constructor: a file whose kind is
\* left out, a directory
ConstructArgs ==
    {<<Path(TRUE, <<Str_mnt, <<"s", ".", "e", "v", "t", "x">>>>), OmittedKind>>,
     <<Path(TRUE, <<Str_mnt, Str_a>>), "DIRECTORY">>}

\* entries: /mnt/s.evtx, s.evt, /mnt/.evtx, n.txt
Entries ==
    {Path(TRUE, <<Str_mnt, <<"s", ".", "e", "v", "t", "x">>>>),
     Path(FALSE, <<<<"s", ".", "e", "v", "t">>>>),
     Path(TRUE, <<Str_mnt, <<".", "e", "v", "t", "x">>>>),
     Path(FALSE, <<<<"n", ".", "t", "x", "t">>>>)}

Pattern(lit, end) == [lit |-> lit, end |-> end]

\* \.evtx$   \.ev   (empty pattern)
ExtPatternList ==
    <<Pattern(<<".", "e", "v", "t", "x">>, TRUE), Pattern(<<".", "e", "v">>, FALSE),
      Pattern(<<>>, FALSE)>>

\* ^4D5A   (empty pattern)
SigPatternList == <<Pattern(<<"4", "D", "5", "A">>, FALSE), Pattern(<<>>, FALSE)>>

\* Windows   Lin
SysPatternList ==
    <<Pattern(<<"W", "i", "n", "d", "o", "w", "s">>, FALSE), Pattern(<<"L", "i", "n">>, FALSE)>>

Sigs == {<<"4", "D", "5", "A", "9", "0">>, <<"7", "F", "4", "5">>, <<>>}
SigArgs == Sigs \cup {None, Omitted}

KindArgs == {OmittedKind, "FILE", "DIRECTORY"}

\* values platform.system() may return
Hosts == {<<"W", "i", "n", "d", "o", "w", "s">>, <<"L", "i", "n", "u", "x">>}

KindsChoices == {KINDS_default, <<"FILE">>, <<"DIRECTORY", "SYMLINK">>, <<>>}

Class(kinds, ext, sig, sys) ==
    [KINDS |-> kinds, EXTENSION_FILTERS |-> ext, MAGIC_SIGNATURE_FILTERS |-> sig,
     SYSTEM_FILTERS |-> sys]

\* class Extractor as declared: every kind, no filter
ExtractorClass == Class(KINDS_default, <<>>, <<>>, <<>>)

\* a subclass for Windows event logs
EvtxClass ==
    Class(<<"FILE">>, <<ExtPatternList[1]>>, <<SigPatternList[1]>>, <<SysPatternList[1]>>)

\* the subclasses a program may declare
Classes ==
    {Class(k, e, m, s) : k \in KindsChoices, e \in FilterTuples(ExtPatternList),
                         m \in FilterTuples(SigPatternList), s \in FilterTuples(SysPatternList)}

(* ------------------------------- state --------------------------------- *)

\* heap[DefaultRemap] is the dict made once, when `def __init__` is executed
DefaultRemap == 1

NoCall == [op |-> "none", via |-> 0, args |-> <<>>, ret |-> <<>>]

RemapOf(i) == heap[instances[i].remap]

\* the number of pairs held by the dicts h[from], ..., h[Len(h)]
RECURSIVE PairsIn(_, _)
PairsIn(h, from) == IF from > Len(h) THEN 0 ELSE Len(h[from]) + PairsIn(h, from + 1)

Init ==
    /\ cls = EvtxClass
    /\ host = <<"L", "i", "n", "u", "x">>
    /\ heap = <<<<>>>>
    /\ instances = <<>>
    /\ call = NoCall

InitMatch ==
    /\ cls \in Classes
    /\ host \in Hosts
    /\ heap = <<<<>>>>
    /\ instances = <<>>
    /\ call = NoCall

(* ------------------------------ actions -------------------------------- *)

\* Extractor(entry[, kind][, remap]); a remap that is passed is a dict of the
\* caller's, here a new one holding remapArg.table
Construct(entry, kindArg, remapArg) ==
    /\ Len(instances) < MaxInstances
    /\ PairsIn(heap, 1) + Len(remapArg.table) <= MaxPairs
    /\ LET kind == IF kindArg = OmittedKind THEN "FILE" ELSE kindArg
           ref == IF remapArg.given THEN Len(heap) + 1 ELSE DefaultRemap
       IN  /\ heap' = IF remapArg.given THEN Append(heap, remapArg.table) ELSE heap
           /\ instances' = Append(instances, [entry |-> entry, kind |-> kind, remap |-> ref])
           /\ call' = [op |-> "__init__", via |-> Len(instances) + 1,
                       args |-> <<>>, ret |-> <<>>]
    /\ UNCHANGED <<cls, host>>

\* the caller's `instance.remap[source] = destination`
AddPair(i, source, destination) ==
    /\ i \in 1..Len(instances)
    /\ heap' = [heap EXCEPT ![instances[i].remap] = dict_setitem(@, source, destination)]
    /\ PairsIn(heap', 1) <= MaxPairs
    /\ call' = [op |-> "remap.__setitem__", via |-> i, args |-> <<>>, ret |-> <<>>]
    /\ UNCHANGED <<cls, host, instances>>

\* RemapLocation keeping the rewritten path in self.entry
RemapLocation_stores_entry(i, location) ==
    /\ i \in 1..Len(instances)
    /\ call' = [op |-> "remap_location", via |-> i, args |-> [location |-> location],
                ret |-> remap_location(RemapOf(i), location)]
    /\ instances' = [instances EXCEPT ![i].entry = remap_loop(RemapOf(i), location)]
    /\ UNCHANGED <<cls, host, heap>>

RemapLocation(i, location) ==
    /\ i \in 1..Len(instances)
    /\ call' = [op |-> "remap_location", via |-> i, args |-> [location |-> location],
                ret |-> remap_location(RemapOf(i), location)]
    /\ UNCHANGED <<cls, host, heap, instances>>

\* via = 0: called on the class; via > 0: on that instance
Supports(via, entry, kindArg, sigArg) ==
    /\ via \in 0..Len(instances)
    /\ call' = [op |-> "supports", via |-> via,
                args |-> [entry |-> entry, kind |-> kindArg, magic_signature |-> sigArg],
                ret |-> supports(cls, entry, kindArg, sigArg)]
    /\ UNCHANGED <<cls, host, heap, instances>>

IsCompatible(via) ==
    /\ via \in 0..Len(instances)
    /\ call' = [op |-> "is_compatible", via |-> via, args |-> <<>>,
                ret |-> is_compatible(cls, host, via)]
    /\ UNCHANGED <<cls, host, heap, instances>>

Next ==
    \/ \E a \in ConstructArgs, remapArg \in RemapArgs : Construct(a[1], a[2], remapArg)
    \/ \E i \in 1..Len(instances), source \in Sources, destination \in Dests :
          AddPair(i, source, destination)
    \/ \E i \in 1..Len(instances), location \in Locations : RemapLocation(i, location)
    \/ \E i \in 1..Len(instances) :
          Supports(i, instances[i].entry, instances[i].kind, Omitted)
    \/ \E i \in 1..Len(instances) : IsCompatible(i)

NextMatch ==
    \/ \E entry \in Entries, kindArg \in KindArgs, sigArg \in SigArgs :
          Supports(0, entry, kindArg, sigArg)
    \/ IsCompatible(0)

Spec == Init /\ [][Next]_vars

SpecMatch == InitMatch /\ [][NextMatch]_vars

(* ------------------------- what the claims use ------------------------- *)

\* the kind and the magic_signature a recorded supports call ran with
CallKind == IF call.args.kind = OmittedKind THEN "FILE" ELSE call.args.kind

NoSignature == call.args.magic_signature \in {None, Omitted}

\* some pattern of the tuple matches the string from its first character
AnyMatch(patterns, string) ==
    \E k \in 1..Len(patterns) :
        /\ Len(string) >= Len(patterns[k].lit)
        /\ \A n \in 1..Len(patterns[k].lit) : string[n] = patterns[k].lit[n]
        /\ (patterns[k].end => Len(string) = Len(patterns[k].lit))

ExtensionMatches == AnyMatch(cls.EXTENSION_FILTERS, suffix(call.args.entry))

\* the location lies under the source root
IsUnder(location, source) ==
    /\ location.abs = source.abs
    /\ Len(source.parts) <= Len(location.parts)
    /\ \A n \in 1..Len(source.parts) : location.parts[n] = source.parts[n]

\* the indices of the pairs of the called instance's table whose source
\* contains the location of a recorded remap_location call
Matching == {k \in 1..Len(RemapOf(call.via)) : IsUnder(call.args.location, RemapOf(call.via)[k][1])}

CoreOps == {"remap_location", "supports", "is_compatible"}

(* ------------------------------- claims -------------------------------- *)

\* C1: a supports call whose kind is not a member of KINDS returns false,
\* whatever the filters hold and whatever the extension and the signature are.
C1_KindGate ==
    (call.op = "supports" /\ CallKind \notin Range(cls.KINDS))
        => (call.ret.outcome = "return" /\ call.ret.value = FALSE)

\* C1 witness: the kind is refused although the extension and a supplied
\* signature both match.
C1_Witness ==
    /\ call.op = "supports"
    /\ CallKind \notin Range(cls.KINDS)
    /\ ExtensionMatches
    /\ ~NoSignature
    /\ call.args.magic_signature # <<>>
    /\ AnyMatch(cls.MAGIC_SIGNATURE_FILTERS, call.args.magic_signature)
    /\ call.ret.value = FALSE

\* C2 (as claimed): a supports call with kind in KINDS and a magic_signature
\* string, the empty string included, returns extension_match OR
\* signature_match.
C2_SuppliedSignatureOr ==
    (call.op = "supports" /\ CallKind \in Range(cls.KINDS) /\ ~NoSignature)
        => call.ret.value =
              (ExtensionMatches \/ AnyMatch(cls.MAGIC_SIGNATURE_FILTERS, call.args.magic_signature))

\* C3 (as claimed): supports(entry), kind and magic_signature left out, returns
\* true whenever the entry's suffix matches an EXTENSION_FILTERS pattern.
C3_ExtensionDefault ==
    (/\ call.op = "supports"
     /\ call.args.kind = OmittedKind
     /\ call.args.magic_signature = Omitted
     /\ ExtensionMatches)
        => call.ret.value = TRUE

\* C3 (amended): supports(entry), kind and magic_signature left out, returns
\* true whenever FILE is a member of KINDS and the entry's suffix matches an
\* EXTENSION_FILTERS pattern.
C3_ExtensionDefaultFileKind ==
    (/\ call.op = "supports"
     /\ call.args.kind = OmittedKind
     /\ call.args.magic_signature = Omitted
     /\ "FILE" \in Range(cls.KINDS)
     /\ ExtensionMatches)
        => (call.ret.outcome = "return" /\ call.ret.value = TRUE)

\* C3 witness: supports(entry) alone returns true on a class that takes files,
\* through a pattern that is not the empty one.
C3_Witness ==
    /\ call.op = "supports"
    /\ call.via = 0
    /\ call.args.kind = OmittedKind
    /\ call.args.magic_signature = Omitted
    /\ "FILE" \in Range(cls.KINDS)
    /\ ExtensionMatches
    /\ \A k \in 1..Len(cls.EXTENSION_FILTERS) : cls.EXTENSION_FILTERS[k].lit # <<>>
    /\ call.ret.value = TRUE

\* C4 (as claimed): when several pairs have a source root containing the
\* location passed in, remap_location returns destination / (location relative
\* to source) for the last of them.
C4_LastMatchingPairWins ==
    (call.op = "remap_location" /\ Cardinality(Matching) >= 2)
        => LET last == CHOOSE k \in Matching : \A m \in Matching : m <= k
               pair == RemapOf(call.via)[last]
               location == call.args.location
           IN  call.ret.value =
                   [abs |-> pair[2].abs,
                    parts |-> pair[2].parts \o
                              SubSeq(location.parts, Len(pair[1].parts) + 1,
                                     Len(location.parts))]

\* C5 (as claimed): is_compatible yields a boolean, true iff the host name is
\* matched from its start by a SYSTEM_FILTERS pattern.
C5_IsCompatibleIffSystemMatches ==
    call.op = "is_compatible"
        => (/\ call.ret.outcome = "return"
            /\ call.ret.type = "bool"
            /\ call.ret.value = AnyMatch(cls.SYSTEM_FILTERS, host))

\* C6 (as claimed): every evaluation of supports and of is_compatible, on the
\* class or on an instance, finishes with a boolean and never with an error.
C6_TotalPredicates ==
    call.op \in {"supports", "is_compatible"}
        => (call.ret.outcome = "return" /\ call.ret.type = "bool")

\* C7: remap_location of a location that lies under none of the table's source
\* roots returns, without raising, the location unchanged, and remapping the
\* result again gives the same path.
C7_NoMatchUnchanged ==
    (call.op = "remap_location" /\ Matching = {})
        => (/\ call.ret.outcome = "return"
            /\ call.ret.value = call.args.location
            /\ remap_location(RemapOf(call.via), call.ret.value).value = call.ret.value)

\* C7 witness: the table is not empty, one of its sources has the location's
\* component names but not its anchor, and no pair applies.
C7_Witness ==
    /\ call.op = "remap_location"
    /\ RemapOf(call.via) # <<>>
    /\ Matching = {}
    /\ \E k \in 1..Len(RemapOf(call.via)) :
          /\ RemapOf(call.via)[k][1].abs # call.args.location.abs
          /\ RemapOf(call.via)[k][1].parts = SubSeq(call.args.location.parts, 1, 1)
    /\ call.ret.value = call.args.location

\* C8: on a class whose EXTENSION_FILTERS is empty, supports called without a
\* magic_signature returns false for every entry and every kind.
C8_EmptyExtensionFilters ==
    (call.op = "supports" /\ cls.EXTENSION_FILTERS = <<>> /\ NoSignature)
        => (call.ret.outcome = "return" /\ call.ret.value = FALSE)

\* C8 witness: the kind is accepted, the class declares signature patterns,
\* and the call still returns false for want of an extension pattern.
C8_Witness ==
    /\ call.op = "supports"
    /\ cls.EXTENSION_FILTERS = <<>>
    /\ NoSignature
    /\ CallKind \in Range(cls.KINDS)
    /\ cls.MAGIC_SIGNATURE_FILTERS # <<>>
    /\ call.ret.value = FALSE

\* C9 (as claimed): adding a pair to one instance's remap leaves the remap of
\* every other instance that was constructed without a remap as it was, empty.
C9_IndependentDefaultRemaps ==
    [][\A j \in 1..Len(instances) :
          (/\ call'.op = "remap.__setitem__"
           /\ call'.via # j
           /\ instances[j].remap = DefaultRemap)
              => heap'[instances'[j].remap] = RemapOf(j)]_vars

\* C10: a remap_location, supports or is_compatible call changes no instance's
\* entry, kind or remap, nor the pairs of any remap table or their order.
C10_CoreOpsFrame ==
    [][call'.op \in CoreOps => (instances' = instances /\ heap' = heap)]_vars

\* C10 witness: a remap_location call rewrote its location through a pair of
\* the instance's table.
C10_Witness ==
    /\ call.op = "remap_location"
    /\ Matching # {}
    /\ call.ret.value # call.args.location
    /\ RemapOf(call.via) # <<>>

====
